---- MODULE Spec2Model ----
(***************************************************************************)
(* Model of the dynamic-DNS updater in src/main.go: NewDDNSUpdater,        *)
(* DDNSUpdater.Run (syncRecords, the one-second polling loop, CheckIP,     *)
(* updateRecords), DDNSUpdater.Shutdown and the part of main that drives   *)
(* them.  The IP echo service and the DigitalOcean API are the             *)
(* environment: their answers are nondeterministic inputs of the actions.  *)
(***************************************************************************)
EXTENDS Integers, Sequences, FiniteSets, TLC

(***************************************************************************)
(* Bounds of the model.                                                    *)
(***************************************************************************)
MaxTime == 5        \* seconds of wall-clock time explored
MaxInterval == 2    \* largest configured DDNS_INTERVAL, in seconds
MaxHosts == 2       \* largest number of names in DDNS_DOMAINS

(***************************************************************************)
(* Program constants.                                                      *)
(***************************************************************************)
ShutdownTimeout == 5      \* main: context.WithTimeout(..., 5*time.Second)
TickPeriod == 1           \* time.Tick(1 * time.Second) in Run and Shutdown
StatusBadRequest == 400   \* http.StatusBadRequest

(***************************************************************************)
(* Host names that DDNS_DOMAINS may hold, and what tld.Parse makes of      *)
(* "http://" + name.  "bad host" is a name url.Parse rejects (a space in   *)
(* the host), as a list written "a.com, b.com" produces.                   *)
(***************************************************************************)
Names == {"example.com", "home.example.com", "www.example.com", "bad host"}

tldParse(name) ==
    CASE name = "example.com"      -> [ok |-> TRUE, Subdomain |-> "", Domain |-> "example", TLD |-> "com"]
      [] name = "home.example.com" -> [ok |-> TRUE, Subdomain |-> "home", Domain |-> "example", TLD |-> "com"]
      [] name = "www.example.com"  -> [ok |-> TRUE, Subdomain |-> "www", Domain |-> "example", TLD |-> "com"]
      [] OTHER                     -> [ok |-> FALSE, Subdomain |-> "", Domain |-> "", TLD |-> ""]

\* domain := hostname.Domain + "." + hostname.TLD
RegDomain(name) == tldParse(name).Domain \o "." \o tldParse(name).TLD

\* dnsName := strings.TrimPrefix(subdomain + "." + domain, ".")
DnsName(name) ==
    IF tldParse(name).Subdomain = ""
    THEN RegDomain(name)
    ELSE tldParse(name).Subdomain \o "." \o RegDomain(name)

(***************************************************************************)
(* net.IP values.  An address is the tuple of its four significant octets  *)
(* (net.ParseIP always returns the 16-byte form, so two parsed addresses   *)
(* are Equal exactly when these octets agree); the nil IP is <<>>.         *)
(***************************************************************************)
NilIP == <<>>

\* The bodies the echo service may answer with (already trimmed by CheckIP).
ProbeBodies == {"1.2.3.4", "5.6.7.8", "::ffff:1.2.3.4", "not an address"}

\* net.ParseIP(strings.TrimSpace(address))
ParseIP(s) ==
    CASE s = "1.2.3.4"        -> <<1, 2, 3, 4>>
      [] s = "::ffff:1.2.3.4" -> <<1, 2, 3, 4>>
      [] s = "5.6.7.8"        -> <<5, 6, 7, 8>>
      [] OTHER                -> NilIP

\* net.IP.String()
IPString(ip) ==
    CASE ip = <<1, 2, 3, 4>> -> "1.2.3.4"
      [] ip = <<5, 6, 7, 8>> -> "5.6.7.8"
      [] OTHER               -> "<nil>"

\* net.IP.Equal
IPEqual(a, b) == Len(a) = Len(b) /\ a = b

ValidAddresses == {"1.2.3.4", "5.6.7.8"}

(***************************************************************************)
(* The provider.  Its A records have fixed identifiers and names; the      *)
(* state of the provider is the data of each record, NoRecord when the     *)
(* record does not exist.  The root name has two A records, 3 and 4.       *)
(***************************************************************************)
RecIds == {1, 2, 3, 4}
NoRecord == "none"

RecName(id) ==
    CASE id = 1 -> "home.example.com"
      [] id = 2 -> "www.example.com"
      [] OTHER  -> "example.com"

RecZone(id) == "example.com"

\* godo.DomainRecord{}: the zero value NewDDNSUpdater stores
ZeroRecord == [ID |-> 0, Data |-> ""]

\* MinOf, were the last of the records taken
MaxOf(S) == CHOOSE x \in S : \A y \in S : x >= y

\* records[0]: the provider lists the records of a name by identifier
MinOf(S) == CHOOSE x \in S : \A y \in S : x <= y

\* Domains.RecordsByTypeAndName(ctx, domain, "A", dnsName, nil): the existing
\* records of that name in that zone, in the provider's order.
RecordsByTypeAndName(prov, domain, dnsName) ==
    {id \in RecIds : RecZone(id) = domain /\ RecName(id) = dnsName /\ prov[id] # NoRecord}

\* Domains.EditRecord(ctx, domain, id, {Data: data}).  The client library
\* refuses id < 1 without sending a request; the provider answers with a
\* status >= 400 for a record it does not have in that zone and for data that
\* is not an address; up tells whether the request gets through at all.
EditRecord(prov, domain, id, data, up) ==
    IF id < 1
    THEN [err |-> TRUE, sent |-> FALSE, status |-> 0, prov |-> prov, record |-> ZeroRecord]
    ELSE IF ~up
    THEN [err |-> TRUE, sent |-> TRUE, status |-> 0, prov |-> prov, record |-> ZeroRecord]
    ELSE IF id \notin RecIds \/ RecZone(id) # domain \/ prov[id] = NoRecord
    THEN [err |-> TRUE, sent |-> TRUE, status |-> 404, prov |-> prov, record |-> ZeroRecord]
    ELSE IF data \notin ValidAddresses
    THEN [err |-> TRUE, sent |-> TRUE, status |-> 422, prov |-> prov, record |-> ZeroRecord]
    ELSE [err |-> FALSE, sent |-> TRUE, status |-> 200,
          prov |-> [prov EXCEPT ![id] = data],
          record |-> [ID |-> id, Data |-> data]]

(***************************************************************************)
(* State.                                                                  *)
(***************************************************************************)
VARIABLES
    domains,     \* cfg.Domains, the configured names
    recordMap,   \* DDNSUpdater.recordMap
    interval,    \* DDNSUpdater.interval
    lastSet,     \* DDNSUpdater.lastSet
    nextCheck,   \* DDNSUpdater.nextCheck
    currentIP,   \* DDNSUpdater.currentIP
    shutdown,    \* DDNSUpdater.shutdown
    complete,    \* DDNSUpdater.complete
    pc,          \* where Run is: "sync", "loop" or "done"
    mainPc,      \* where main is: "wait", "shutdown", "returned" or "exited"
    result,      \* what Shutdown returned: "none", "nil" or "timeout"
    deadline,    \* the deadline of the context main gives Shutdown
    now,         \* time.Now(), in seconds
    runDue,      \* the ticker of Run holds a tick Run has not received yet
    pollDue,     \* the ticker of Shutdown holds a tick not received yet
    provider,    \* the provider's records: identifier -> data
    ev,          \* what the last iteration of Run did
    lastPass     \* summary of the last update pass

vars == <<domains, recordMap, interval, lastSet, nextCheck, currentIP, shutdown,
          complete, pc, mainPc, result, deadline, now, runDue, pollDue,
          provider, ev, lastPass>>

\* Put(m, k, v) is the map m after m[k] = v.
Put(m, k, v) == [x \in (DOMAIN m) \cup {k} |-> IF x = k THEN v ELSE m[x]]

(***************************************************************************)
(* NewDDNSUpdater: one zero record per configured name, nextCheck = now.   *)
(***************************************************************************)
NewDDNSUpdater(ds) == [name \in ds |-> ZeroRecord]

NoMap == [name \in {} |-> ZeroRecord]

NoPass == [ran |-> FALSE, ip |-> NilIP, failed |-> {}, edited |-> {}, refused |-> {}]

NoEv == [op |-> "new", at |-> 0, probeErr |-> FALSE, ip |-> NilIP, passRan |-> FALSE,
         edits |-> {}, preMap |-> NoMap, preIP |-> NilIP, preNext |-> 0,
         prior |-> NoPass, reached |-> {}]

Init ==
    /\ domains \in {ds \in SUBSET Names : ds # {} /\ Cardinality(ds) <= MaxHosts}
    /\ recordMap = NewDDNSUpdater(domains)
    /\ interval \in 1..MaxInterval
    /\ lastSet = 0
    /\ nextCheck = 0
    /\ currentIP = NilIP
    /\ shutdown = FALSE
    /\ complete = FALSE
    /\ pc = "sync"
    /\ mainPc = "wait"
    /\ result = "none"
    /\ deadline = 0
    /\ now = 0
    /\ runDue = FALSE
    /\ pollDue = FALSE
    /\ provider \in {p \in [RecIds -> {NoRecord, "1.2.3.4", "5.6.7.8"}] :
                        /\ p[1] \in {NoRecord, "1.2.3.4"}
                        /\ p[2] = "1.2.3.4" /\ p[3] = "1.2.3.4" /\ p[4] = "5.6.7.8"}
    /\ ev = NoEv
    /\ lastPass = NoPass

(***************************************************************************)
(* syncRecords.  reachable is the set of names whose lookup gets an answer *)
(* from the provider.  Every name is handled on its own and only its own   *)
(* entry is written, so the order of the range does not matter.            *)
(***************************************************************************)
syncOne(m, prov, name, reachable) ==
    IF ~tldParse(name).ok THEN m[name]
    ELSE IF name \notin reachable THEN m[name]
    ELSE LET records == RecordsByTypeAndName(prov, RegDomain(name), DnsName(name))
         IN IF records = {} THEN m[name]
            ELSE [ID |-> MinOf(records), Data |-> prov[MinOf(records)]]

\* syncRecords, were the first failed lookup to end the pass
syncRecordsStopAtFailure(m, prov, reachable) ==
    IF reachable # DOMAIN m THEN m
    ELSE [name \in DOMAIN m |-> syncOne(m, prov, name, reachable)]

syncRecords(m, prov, reachable) ==
    [name \in DOMAIN m |-> syncOne(m, prov, name, reachable)]

\* Run, up to the loop: err := d.syncRecords(), which is always nil; the
\* ticker of the loop starts after it.
Sync ==
    /\ pc = "sync"
    /\ mainPc # "exited"
    /\ \E reachable \in SUBSET (DOMAIN recordMap) :
          /\ recordMap' = syncRecords(recordMap, provider, reachable)
          /\ ev' = [NoEv EXCEPT !.op = "sync", !.preMap = recordMap,
                                !.reached = reachable]
    /\ pc' = "loop"
    /\ runDue' = FALSE
    /\ UNCHANGED <<domains, interval, lastSet, nextCheck, currentIP, shutdown, complete,
                   mainPc, result, deadline, now, pollDue, provider, lastPass>>

(***************************************************************************)
(* CheckIP.  answer is what the echo service does: no answer at all (a     *)
(* transport error), or a status and a body.                               *)
(***************************************************************************)
ProbeAnswers ==
    {[up |-> FALSE, status |-> 0, body |-> ""]}
    \cup {[up |-> TRUE, status |-> 200, body |-> b] : b \in ProbeBodies}
    \cup {[up |-> TRUE, status |-> 503, body |-> "1.2.3.4"]}

CheckIP(answer) ==
    IF ~answer.up THEN [address |-> "", err |-> TRUE]
    ELSE IF answer.status >= StatusBadRequest THEN [address |-> "", err |-> TRUE]
    ELSE [address |-> answer.body, err |-> FALSE]

(***************************************************************************)
(* updateRecords, the loop over d.recordMap (lines 281-321).  The range    *)
(* produces the keys in any order, each once: todo is the set of keys it   *)
(* has yet to produce, m and prov are the map and the provider so far and  *)
(* edits the EditRecord calls made so far.  An EditRecord request may or   *)
(* may not get through (up), and a key the loop itself inserts may or may  *)
(* not be produced later by the same range.  The value is the set of ways  *)
(* the loop may end.                                                       *)
(***************************************************************************)
\* the key of d.recordMap[domain] = *r
StoreKey(name, domain) == domain

\* if record.Data == d.currentIP.String() { continue }
Consistent(record, data) == record.Data = data

RECURSIVE updateLoop(_, _, _, _, _)
RECURSIVE updateOne(_, _, _, _, _, _)

\* the body of the loop for the key name, and the rest of the loop
updateOne(name, todo, m, prov, data, edits) ==
    LET record == m[name] IN
    IF Consistent(record, data) THEN updateLoop(todo, m, prov, data, edits)
    ELSE IF ~tldParse(name).ok THEN updateLoop(todo, m, prov, data, edits)
    ELSE
      LET domain == RegDomain(name)
          key == StoreKey(name, domain)
          after(up) ==
            LET res == EditRecord(prov, domain, record.ID, data, up)
                call == [key |-> name, domain |-> domain, id |-> record.ID, data |-> data,
                         sent |-> res.sent, ok |-> ~res.err]
            IN IF res.err \/ res.status >= StatusBadRequest
               THEN updateLoop(todo, m, prov, data, edits \cup {call})
               ELSE UNION {updateLoop(todo \cup new, Put(m, key, res.record), res.prov,
                                      data, edits \cup {call}) :
                           new \in IF key \in DOMAIN m THEN {{}} ELSE {{}, {key}}}
      IN UNION {after(up) : up \in BOOLEAN}

updateLoop(todo, m, prov, data, edits) ==
    IF todo = {} THEN {[map |-> m, prov |-> prov, edits |-> edits]}
    ELSE UNION {updateOne(name, todo \ {name}, m, prov, data, edits) : name \in todo}

\* updateRecords(ip, ts) without its two assignments d.currentIP = ip and
\* d.lastSet = ts, which the actions make: what the pass may do
updateRecords(m, prov, ip) == updateLoop(DOMAIN m, m, prov, IPString(ip), {})

\* the summary of a pass kept for the next one
PassSummary(ip, edits) ==
    [ran |-> TRUE, ip |-> ip,
     failed |-> {c.key : c \in {e \in edits : ~e.ok}},
     edited |-> {c.key : c \in {e \in edits : e.ok}},
     refused |-> {c.key : c \in {e \in edits : ~e.sent}}]

(***************************************************************************)
(* One iteration of the loop of Run, for the tick of time now.             *)
(***************************************************************************)
\* TickReady, were the loop started without waiting for syncRecords
TickReadyBeforeSync ==
    /\ pc \in {"sync", "loop"}
    /\ mainPc # "exited"
    /\ (runDue \/ pc = "sync")

\* Run is in its loop and its ticker holds a tick
TickReady ==
    /\ pc = "loop"
    /\ mainPc # "exited"
    /\ runDue

\* TickShutdown, were the loop left without d.complete = true
TickShutdownNoComplete ==
    /\ TickReady
    /\ shutdown
    /\ pc' = "done"
    /\ runDue' = FALSE
    /\ ev' = [NoEv EXCEPT !.op = "shutdown", !.at = now, !.preMap = recordMap,
                          !.preIP = currentIP, !.preNext = nextCheck]
    /\ UNCHANGED <<domains, recordMap, interval, lastSet, nextCheck, currentIP, shutdown,
                   complete, mainPc, result, deadline, now, pollDue, provider, lastPass>>

\* if d.shutdown { d.complete = true; break }
TickShutdown ==
    /\ TickReady
    /\ shutdown
    /\ complete' = TRUE
    /\ pc' = "done"
    /\ runDue' = FALSE
    /\ ev' = [NoEv EXCEPT !.op = "shutdown", !.at = now, !.preMap = recordMap,
                          !.preIP = currentIP, !.preNext = nextCheck]
    /\ UNCHANGED <<domains, recordMap, interval, lastSet, nextCheck, currentIP, shutdown,
                   mainPc, result, deadline, now, pollDue, provider, lastPass>>

\* CheckDue, were every tick to probe
CheckDueAlways(next, t) == TRUE

\* if d.nextCheck.Before(now) || d.nextCheck.Equal(now)
CheckDue(next, t) == next <= t

\* the check is not due
TickIdle ==
    /\ TickReady
    /\ ~shutdown
    /\ ~CheckDue(nextCheck, now)
    /\ runDue' = FALSE
    /\ ev' = [NoEv EXCEPT !.op = "idle"]
    /\ UNCHANGED <<domains, recordMap, interval, lastSet, nextCheck, currentIP, shutdown,
                   complete, pc, mainPc, result, deadline, now, pollDue, provider,
                   lastPass>>

\* the probe of a due check failed: CheckIP returned an error, or a body
\* that net.ParseIP does not accept; ip is then the nil IP
ProbeFailed(probe, ip) == probe.err \/ ip = NilIP

\* RunsUpdate, were the unset address not compared
RunsUpdateSkipUnset(probe, cur, ip) == cur # NilIP /\ ~IPEqual(cur, ip)

\* if !d.currentIP.Equal(ip) { d.updateRecords(ip, tick) }
RunsUpdate(probe, cur, ip) == ~IPEqual(cur, ip)

\* NextCheckAfter, were a failed probe to skip the rest of the iteration
NextCheckKeptOnFailure(probe, ip, old, t, d) == IF ProbeFailed(probe, ip) THEN old ELSE t + d

\* d.nextCheck = now.Add(d.interval), reached on every due tick
NextCheckAfter(probe, ip, old, t, d) == t + d

\* the check is due: probe, compare, update, schedule the next check
TickProbe ==
    /\ TickReady
    /\ ~shutdown
    /\ CheckDue(nextCheck, now)
    /\ \E answer \in ProbeAnswers :
         LET probe == CheckIP(answer)
             ip == ParseIP(probe.address)
             base == [NoEv EXCEPT !.op = "probe", !.at = now,
                                  !.probeErr = ProbeFailed(probe, ip), !.ip = ip,
                                  !.preMap = recordMap, !.preIP = currentIP,
                                  !.preNext = nextCheck]
         IN
         /\ IF RunsUpdate(probe, currentIP, ip)
            THEN \E out \in updateRecords(recordMap, provider, ip) :
                      /\ currentIP' = ip
                      /\ recordMap' = out.map
                      /\ provider' = out.prov
                      /\ lastSet' = now
                      /\ lastPass' = PassSummary(ip, out.edits)
                      /\ ev' = [base EXCEPT !.passRan = TRUE, !.edits = out.edits,
                                            !.prior = lastPass]
            ELSE /\ ev' = base
                 /\ UNCHANGED <<currentIP, recordMap, provider, lastSet, lastPass>>
         /\ nextCheck' = NextCheckAfter(probe, ip, nextCheck, now, interval)
    /\ runDue' = FALSE
    /\ UNCHANGED <<domains, interval, shutdown, complete, pc, mainPc, result, deadline,
                   now, pollDue>>

(***************************************************************************)
(* main and Shutdown.  d.shutdown and d.complete are plain bools written   *)
(* by one goroutine and read by the other without synchronisation.  Each   *)
(* loop reads its flag from memory once per tick, after a channel receive, *)
(* so a read sees either the value before a concurrent write or the value  *)
(* after it: the interleaving of Signal, Poll and the ticks of Run.        *)
(***************************************************************************)
\* <-done, ctx with its deadline, and the start of Shutdown: d.shutdown = true
Signal ==
    /\ mainPc = "wait"
    /\ now < MaxTime
    /\ deadline' = now + ShutdownTimeout
    /\ shutdown' = TRUE
    /\ mainPc' = "shutdown"
    /\ pollDue' = FALSE
    /\ UNCHANGED <<domains, recordMap, interval, lastSet, nextCheck, currentIP, complete,
                   pc, result, now, runDue, provider, ev, lastPass>>

\* ShutdownPoll, were d.complete not looked at
ShutdownPollNoWait(t, dl, done) == IF t >= dl THEN "timeout" ELSE "nil"

\* what one iteration of the loop of Shutdown decides at time t
ShutdownPoll(t, dl, done) ==
    IF t >= dl THEN "timeout"
    ELSE IF done THEN "nil"
    ELSE "none"

\* one iteration of the loop of Shutdown
Poll ==
    /\ mainPc = "shutdown"
    /\ pollDue
    /\ pollDue' = FALSE
    /\ result' = ShutdownPoll(now, deadline, complete)
    /\ mainPc' = IF result' = "none" THEN "shutdown" ELSE "returned"
    /\ UNCHANGED <<domains, recordMap, interval, lastSet, nextCheck, currentIP, shutdown,
                   complete, pc, deadline, now, runDue, provider, ev, lastPass>>

\* main after Shutdown: log.Fatalf on an error, return otherwise; both end
\* the process and with it the goroutine of Run
Exit ==
    /\ mainPc = "returned"
    /\ mainPc' = "exited"
    /\ UNCHANGED <<domains, recordMap, interval, lastSet, nextCheck, currentIP, shutdown,
                   complete, pc, result, deadline, now, runDue, pollDue, provider, ev,
                   lastPass>>

\* A second passes and both tickers fire.  The loop of Shutdown does nothing
\* that takes time, so it has received its tick; Run may still be busy in a
\* network call, and then the tick it has not received is lost.
Advance ==
    /\ now < MaxTime
    /\ mainPc # "exited"
    /\ ~pollDue
    /\ now' = now + TickPeriod
    /\ runDue' = (pc = "loop")
    /\ pollDue' = (mainPc = "shutdown")
    /\ UNCHANGED <<domains, recordMap, interval, lastSet, nextCheck, currentIP, shutdown,
                   complete, pc, mainPc, result, deadline, provider, ev, lastPass>>

Next ==
    \/ Sync
    \/ TickShutdown
    \/ TickIdle
    \/ TickProbe
    \/ Signal
    \/ Poll
    \/ Exit
    \/ Advance

Spec == Init /\ [][Next]_vars

(***************************************************************************)
(* The program when no call of Run takes long: Run has finished            *)
(* syncRecords and has received every tick before the next second passes.  *)
(***************************************************************************)
AdvanceInTime ==
    /\ pc # "sync"
    /\ ~runDue
    /\ Advance

NextInTime ==
    \/ Sync
    \/ TickShutdown
    \/ TickIdle
    \/ TickProbe
    \/ Signal
    \/ Poll
    \/ Exit
    \/ AdvanceInTime

\* time passes, and the goroutine of Run gets to run
FairSpec ==
    /\ Init /\ [][NextInTime]_vars
    /\ WF_vars(AdvanceInTime) /\ WF_vars(Sync) /\ WF_vars(TickShutdown)

(***************************************************************************)
(* The daemon running for as long as one likes.  time.Now() has no bound,  *)
(* and the program only compares times with one another (main.go:224) and *)
(* adds the interval to one (main.go:240): while no shutdown is under way, *)
(* a state and the same state one second earlier behave alike.  When the   *)
(* clock reaches the end of the time explored, Rebase goes on with the     *)
(* state one second earlier: a run of any length is a behaviour.  lastSet  *)
(* is only ever written, and it and the times of the history stop at 0.    *)
(***************************************************************************)
Earlier(t) == IF t < TickPeriod THEN 0 ELSE t - TickPeriod

Rebase ==
    /\ now = MaxTime
    /\ pc = "loop" /\ mainPc = "wait" /\ ~runDue
    /\ now' = now - TickPeriod
    /\ nextCheck' = nextCheck - TickPeriod
    /\ lastSet' = Earlier(lastSet)
    /\ ev' = [ev EXCEPT !.at = Earlier(@), !.preNext = Earlier(@)]
    /\ UNCHANGED <<domains, recordMap, interval, currentIP, shutdown, complete, pc,
                   mainPc, result, deadline, runDue, pollDue, provider, lastPass>>

NextLongRun ==
    \/ NextInTime
    \/ Rebase

\* time passes without end, and Run takes every tick its ticker holds
LongRunSpec ==
    /\ Init /\ [][NextLongRun]_vars
    /\ WF_vars(AdvanceInTime) /\ WF_vars(Rebase)
    /\ WF_vars(Sync) /\ WF_vars(TickShutdown) /\ WF_vars(TickIdle) /\ WF_vars(TickProbe)

(***************************************************************************)
(* updateRecords called on its own, as a test of the update pass calls it: *)
(* after syncRecords, with any address, any number of times.               *)
(***************************************************************************)
CallUpdateRecords ==
    /\ pc = "loop"
    /\ \E ip \in {ParseIP(b) : b \in ProbeBodies} :
         \E out \in updateRecords(recordMap, provider, ip) :
            /\ currentIP' = ip
            /\ recordMap' = out.map
            /\ provider' = out.prov
            /\ lastSet' = now
            /\ lastPass' = PassSummary(ip, out.edits)
            /\ ev' = [NoEv EXCEPT !.op = "pass", !.at = now, !.ip = ip, !.passRan = TRUE,
                                  !.edits = out.edits, !.preMap = recordMap,
                                  !.preIP = currentIP, !.preNext = nextCheck,
                                  !.prior = lastPass]
    /\ UNCHANGED <<domains, interval, nextCheck, shutdown, complete, pc, mainPc, result,
                   deadline, now, runDue, pollDue>>

NextPass ==
    \/ Sync
    \/ CallUpdateRecords

SpecPass == Init /\ [][NextPass]_vars

(***************************************************************************)
(* Properties.                                                             *)
(***************************************************************************)
\* the keys of the EditRecord calls of the last pass, and those that succeeded
EditKeys == {c.key : c \in ev.edits}
EditedOk == {c.key : c \in {e \in ev.edits : e.ok}}
\* and those whose request was sent and failed (no answer, or a status >= 400)
EditFailed == {c.key : c \in {e \in ev.edits : e.sent /\ ~e.ok}}

C2_FailedProbeChangesNothing ==
    (ev.op = "probe" /\ ev.probeErr) =>
        /\ currentIP = ev.preIP
        /\ recordMap = ev.preMap
        /\ ~ev.passRan

\* C3: the update pass sends no edit for an entry whose cached value is the
\* new address already, and a pass that follows a pass for the same address
\* in which no edit failed makes no EditRecord call.
C3_SecondPassEditsNothing ==
    ev.passRan =>
        /\ \A name \in DOMAIN ev.preMap :
              Consistent(ev.preMap[name], IPString(ev.ip)) => name \notin EditKeys
        /\ (ev.prior.ran /\ ev.prior.ip = ev.ip /\ ev.prior.failed = {}) => ev.edits = {}

\* C4: of two tracked hosts A and B of one pass, when the edit of A succeeds
\* and the edit of B fails, the entry of A holds the new address after the
\* pass and the entry of B is what it was.
C4_FailureIsolated ==
    ev.passRan =>
        \A A \in EditedOk \cap domains : \A B \in (EditFailed \cap domains) \ {A} :
            /\ recordMap[A].Data = IPString(ev.ip)
            /\ recordMap[B] = ev.preMap[B]

\* C5: the keys of recordMap are the configured names, in every state.
C5_KeysFixed == DOMAIN recordMap = domains

\* C6: after a pass, the entry of every tracked host whose edit succeeded
\* holds the new address and the identifier of the record the provider
\* returned.
C6_EditRefreshesBinding ==
    ev.passRan =>
        \A c \in ev.edits :
            (c.ok /\ c.key \in domains) =>
                recordMap[c.key] = [ID |-> c.id, Data |-> IPString(ev.ip)]

\* C7: the first probe that returns a valid address while currentIP is unset
\* runs the update pass and sets currentIP to that address, and the pass makes
\* no EditRecord call for an entry whose cached value is that address.
C7_FirstProbeUpdates ==
    (ev.op = "probe" /\ ev.preIP = NilIP /\ ~ev.probeErr) =>
        /\ ev.passRan
        /\ currentIP = ev.ip
        /\ currentIP # NilIP
        /\ \A name \in DOMAIN ev.preMap :
              ev.preMap[name].Data = IPString(ev.ip) => name \notin EditKeys

C7_Witness ==
    /\ ev.op = "probe" /\ ev.preIP = NilIP /\ ~ev.probeErr
    /\ ev.passRan /\ currentIP = ev.ip
    /\ \E name \in DOMAIN ev.preMap :
          ev.preMap[name].Data = IPString(ev.ip) /\ name \notin EditKeys
    /\ EditedOk # {}

\* C8: an iteration of the loop that begins with d.shutdown set makes
\* d.complete true and leaves the loop without a probe, an edit or any other
\* change; once d.complete is true nothing of the updater changes any more;
\* and when Run receives its ticks in time, a requested shutdown leads to
\* d.complete.
TickTaken == pc = "loop" /\ runDue /\ ~runDue' /\ now' = now

C8_ShutdownHonoured ==
    /\ [][(shutdown /\ TickTaken) =>
            /\ complete' /\ pc' = "done"
            /\ UNCHANGED <<recordMap, currentIP, nextCheck, lastSet, provider, lastPass>>]_vars
    /\ [][complete =>
            UNCHANGED <<recordMap, currentIP, nextCheck, lastSet, provider, lastPass,
                        ev, complete, pc>>]_vars
    /\ (shutdown ~> complete)

C8_Witness ==
    /\ ev.op = "shutdown" /\ complete /\ pc = "done"
    /\ ev.preIP # NilIP
    /\ CheckDue(ev.preNext, ev.at)
    /\ now > ev.at

\* C9, as the specification states it: Shutdown returns the timeout error
\* exactly when d.complete became true only at or after the deadline (or
\* never), and nil whenever it became true before the deadline.
CompletedBefore(t) == complete /\ ev.op = "shutdown" /\ ev.at < t

C9_ResultMatchesHandshake ==
    /\ result = "timeout" => ~CompletedBefore(deadline)
    /\ result = "nil" => CompletedBefore(deadline)

\* C9, amended: Shutdown returns nil only when one of its polls before the
\* deadline has seen d.complete true; it returns the timeout error when
\* d.complete is still false at the deadline and also when d.complete became
\* true after the last poll before the deadline; returning changes nothing
\* but the caller's state, so d.shutdown stays set for the loop's next tick.
C9_ResultWithinOnePoll ==
    /\ result = "nil" => CompletedBefore(deadline)
    /\ result = "timeout" =>
          /\ now >= deadline
          /\ ~CompletedBefore(deadline - TickPeriod)
    /\ result # "none" => shutdown
    /\ (result = "timeout" /\ pc = "loop" /\ mainPc # "exited" /\ runDue) => ENABLED TickShutdown

C9_Witness ==
    /\ result = "timeout"
    /\ CompletedBefore(deadline)

\* C10: a tracked host whose edit request failed in a pass keeps its entry,
\* cached value and identifier, and the next pass makes an EditRecord call
\* for it again unless its cached value is the new address.
C10_FailedEditKeepsBinding ==
    ev.passRan =>
        /\ \A h \in EditFailed \cap domains : recordMap[h] = ev.preMap[h]
        /\ ev.prior.ran =>
              \A h \in (ev.prior.failed \cap domains) :
                  ~Consistent(ev.preMap[h], IPString(ev.ip)) => h \in EditKeys

\* C11: in every pass, a tracked host whose entry has no record identifier
\* when the pass begins gets no edit request sent to the provider, and its
\* entry is after the pass what it was before.
C11_UnresolvedSkipped ==
    ev.passRan =>
        \A h \in domains :
            ev.preMap[h].ID = 0 =>
                /\ \A c \in ev.edits : c.key = h => ~c.sent
                /\ recordMap[h] = ev.preMap[h]

\* C12: whatever the lookups of the other names do (unparsable name, failed
\* lookup, no record), syncRecords resolves every name whose own lookup
\* returns a record, and Run goes on to its loop; Run leaves the loop only
\* on a tick that finds d.shutdown set, and then it is done (it returns nil).
C12_SyncNeverFatal ==
    /\ [](ev.op = "sync" =>
            /\ pc = "loop"
            /\ \A h \in domains :
                  (/\ h \in ev.reached
                   /\ tldParse(h).ok
                   /\ RecordsByTypeAndName(provider, RegDomain(h), DnsName(h)) # {})
                  => recordMap[h].ID # 0)
    /\ [][pc = "sync" => pc' \in {"sync", "loop"}]_vars
    /\ [][(pc = "loop" /\ pc' # "loop") => (shutdown /\ pc' = "done")]_vars
    /\ [](pc = "done" => shutdown)

C12_Witness ==
    /\ pc = "done" /\ shutdown
    /\ lastPass.ran /\ lastPass.failed # {}
    /\ \E h \in domains, g \in domains : recordMap[h].ID = 0 /\ recordMap[g].ID # 0

\* C13: after syncRecords, the entry of every configured name whose lookup
\* returned records holds the identifier and the data of the first of them;
\* the entry of a name whose lookup failed, was not made (unparsable name) or
\* returned nothing is what it was; no other key is written.
C13_SyncResultPerHost ==
    ev.op = "sync" =>
        /\ DOMAIN recordMap = DOMAIN ev.preMap
        /\ \A h \in domains :
              LET records == IF h \in ev.reached /\ tldParse(h).ok
                             THEN RecordsByTypeAndName(provider, RegDomain(h), DnsName(h))
                             ELSE {}
              IN IF records # {}
                 THEN /\ recordMap[h].ID \in records
                      /\ \A r \in records : recordMap[h].ID <= r
                      /\ recordMap[h].Data = provider[recordMap[h].ID]
                 ELSE recordMap[h] = ev.preMap[h]

C13_Witness ==
    /\ ev.op = "sync"
    /\ "example.com" \in ev.reached
    /\ Cardinality(RecordsByTypeAndName(provider, "example.com", "example.com")) = 2
    /\ recordMap["example.com"] = [ID |-> 3, Data |-> "1.2.3.4"]
    /\ \E h \in domains : h \notin ev.reached /\ recordMap[h] = ZeroRecord

\* C14: configured names that syncRecords has left without a record
\* identifier, and that have a record at the provider, are looked up again
\* while the daemon keeps running: a later run of syncRecords follows, or
\* the names get their record identifiers, or the shutdown is requested.
Resolvable(h) ==
    tldParse(h).ok /\ RecordsByTypeAndName(provider, RegDomain(h), DnsName(h)) # {}

Unresolved == {h \in domains : recordMap[h].ID = 0 /\ Resolvable(h)}

C14_LookupRetried ==
    (Unresolved # {} /\ pc = "loop" /\ ev.op \in {"probe", "idle"})
        ~> (Unresolved = {} \/ ev.op = "sync" \/ shutdown)

\* C15: while Run is in syncRecords no tick has been taken, no probe made
\* and no edit issued, and the provider is not written; Run goes from
\* syncRecords (Initializing) to the loop (Running) by finishing
\* syncRecords, from the loop to its end (ShuttingDown, Stopped) by the one
\* tick that finds d.shutdown set, and never back.
Phase == CASE pc = "sync" -> 0 [] pc = "loop" -> 1 [] OTHER -> 3

C15_StartupOrdering ==
    /\ [](pc = "sync" =>
            /\ ev = NoEv /\ lastPass = NoPass
            /\ currentIP = NilIP /\ nextCheck = 0 /\ lastSet = 0
            /\ recordMap = NewDDNSUpdater(domains))
    /\ [][pc = "sync" => provider' = provider]_vars
    /\ [][Phase' >= Phase]_vars
    /\ [][(pc = "sync" /\ pc' # "sync") => (pc' = "loop" /\ ev'.op = "sync")]_vars
    /\ [][(pc = "loop" /\ pc' # "loop") =>
            (shutdown /\ complete' /\ pc' = "done" /\ ev'.op = "shutdown")]_vars
    /\ [](ev.op \in {"probe", "idle"} => pc = "loop")

C15_Witness ==
    /\ pc = "done" /\ complete
    /\ lastPass.ran /\ lastPass.edited # {}
    /\ \E h \in domains : recordMap[h].ID # 0

\* C16: a probe is made only on a tick whose time is nextCheck or later; a
\* tick before nextCheck (without shutdown) probes nothing and changes
\* nothing; after a probe that returned an address, the same as before or a
\* new one, nextCheck is the time of the tick plus the interval.
C16_ProbeScheduling ==
    /\ [](ev.op = "probe" => ev.preNext <= ev.at)
    /\ []((ev.op = "probe" /\ ~ev.probeErr) => nextCheck = ev.at + interval)
    /\ [][(TickTaken /\ ~shutdown /\ now < nextCheck) =>
            /\ ev'.op = "idle"
            /\ UNCHANGED <<nextCheck, currentIP, recordMap, provider, lastSet, lastPass>>]_vars

C16_Witness ==
    /\ ev.op = "idle"
    /\ currentIP # NilIP /\ lastPass.ran
    /\ now < nextCheck
    /\ interval = 2
    /\ now > lastSet + interval

\* C17: every edit request sent to the provider carries the string of a
\* valid address, the one a successful probe has just returned and that
\* currentIP now holds.
C17_EditsCarryProbedAddress ==
    (ev.op = "probe" /\ ev.passRan) =>
        \A c \in ev.edits :
            c.sent =>
                /\ ~ev.probeErr
                /\ c.data \in ValidAddresses
                /\ c.data = IPString(currentIP)
                /\ ParseIP(c.data) = ev.ip

\* C18: after a pass in which every edit request that was sent succeeded,
\* the provider's record of every configured name whose entry had a record
\* identifier when the pass began holds the address of the pass.
HostValue(h) == provider[MinOf(RecordsByTypeAndName(provider, RegDomain(h), DnsName(h)))]

C18_ProviderFollowsAddress ==
    (ev.passRan /\ \A c \in ev.edits : c.sent => c.ok) =>
        \A h \in domains :
            (ev.preMap[h].ID # 0 /\ Resolvable(h)) => HostValue(h) = IPString(ev.ip)

\* C19: when an edit that was sent for a configured name fails in the first
\* pass of the run, then the provider's record of that name comes to hold the address of the pass,
\* or a later pass runs (a retry for the same address, which may fail again,
\* or a pass for another address), unless a later probe fails or the
\* shutdown is requested.
Pending ==
    {h \in (lastPass.failed \ lastPass.refused) \cap domains :
        Resolvable(h) /\ HostValue(h) # IPString(lastPass.ip)}

C19_ConvergesAfterFailedEdit ==
    (/\ ev.op = "probe" /\ ev.passRan /\ ~ev.probeErr /\ ~ev.prior.ran
     /\ Pending # {})
        ~> \/ Pending = {}
           \/ ev.passRan /\ ev.prior.ran
           \/ ev.op = "probe" /\ ev.probeErr
           \/ shutdown

\* C20: in every pass, whatever the passes before it did, at most one edit
\* request is sent for any one record of the provider.
C20_OneEditPerRecord ==
    ev.passRan =>
        \A c \in ev.edits : \A d \in ev.edits :
            (c.sent /\ d.sent /\ c.domain = d.domain /\ c.id = d.id) => c = d

====
